---- MODULE Spec2Model ----
(***************************************************************************)
(* Model of lib/ansible/modules/database/postgresql/postgresql_ext.py.     *)
(*                                                                         *)
(* One invocation of the module is one run of main(): it parses its        *)
(* parameters, opens a session, and then talks to the server one statement *)
(* at a time (autocommit).  Each statement sent to the server is one step  *)
(* of the model; the catalog pg_extension is the server's state.           *)
(***************************************************************************)
EXTENDS Integers, Sequences, FiniteSets, TLC

\* Bound: the server knows versions "1" .. MaxVersion of every extension.
MaxVersion == 2

Versions == { ToString(i) : i \in 1..MaxVersion }

\* Python's None (default of ext_exists' and ext_create's ver argument).
None == "None"

\* version=dict(default=""): what main() can receive for the version option.
VersionParams == {""} \cup Versions

\* Variant: "if ver is not None" in place of "if ver".
Truthy_notnone(ver) == ver # None

\* Python truthiness of a version argument: None and "" are falsy.
Truthy(ver) == ver \notin {None, ""}

\* Extension names are sequences of one-character strings.
Letters == {"a", "b"}
Digits == {"1"}

\* \w of the pattern: letters, digits and the underscore.
IsWord(c) == c \in Letters \cup Digits \cup {"_"}

\* [^\W\d]: a word character that is not a digit.
IsFirstChar(c) == IsWord(c) /\ c \notin Digits

\* [\w_\$]
IsRestChar(c) == IsWord(c) \/ c = "_" \/ c = "$"

\* re.match(r'[^\W\d][\w_\$]+$', name): anchored at the start only; the
\* final $ matches at the end of the string or just before a newline that
\* ends the string.
re_match(name) ==
    /\ Len(name) >= 2
    /\ IsFirstChar(name[1])
    /\ \E k \in 2..Len(name) :
          /\ \A i \in 2..k : IsRestChar(name[i])
          /\ \/ k = Len(name)
             \/ k + 1 = Len(name) /\ name[k + 1] = "\n"

\* QuotedIdentifier.getquoted: the identifier itself, or an exception.
Raise == <<"Exception">>
getquoted(identifier) == IF re_match(identifier) THEN identifier ELSE Raise

\* The extension names an invocation is run with: one that matches the
\* pattern and one that does not.
ExtNames == { <<"a", "b">>, <<"a", ";">> }

Procs == {1, 2}

VARIABLES
    pg_extension,   \* the catalog: a set of rows [extname, extversion]
    pc,             \* position of each invocation in main()
    params,         \* module.params of each invocation (and check_mode)
    driver,         \* postgresqldb_found / HAS_QUOTE_IDENT of each process
    changed,        \* main's local variable changed
    msg,            \* msg of fail_json, "" if none
    stmts,          \* statements each invocation has sent to the server
    before,         \* the catalog when the invocation began, and whether the
                    \* invocation repeats the run that finished just before it
    last            \* the most recently finished invocation

vars == <<pg_extension, pc, params, driver, changed, msg, stmts, before, last>>

\* Catalogs with a unique index on extname.
Rows == [extname : ExtNames, extversion : Versions]
Catalogs == { c \in SUBSET Rows :
                \A r1, r2 \in c : r1.extname = r2.extname => r1 = r2 }

NoParams == [ext |-> <<>>, version |-> "", state |-> "present", check_mode |-> FALSE]
NoDriver == [postgresqldb_found |-> FALSE, HAS_QUOTE_IDENT |-> FALSE]

\* The three ways the two imports at module load can turn out: psycopg2
\* missing, psycopg2 older than 2.7 (no quote_ident), psycopg2 with quote_ident.
Drivers == { d \in [postgresqldb_found : BOOLEAN, HAS_QUOTE_IDENT : BOOLEAN] :
               d.HAS_QUOTE_IDENT => d.postgresqldb_found }

\* The desired state of the preceding invocation, kept when that invocation
\* was a non-check run that ended in exit_json; NoRun otherwise.
NoRun == [ext |-> <<>>, version |-> "", state |-> "none"]
Desired(p) == [ext |-> params[p].ext, version |-> params[p].version,
               state |-> params[p].state]

Terminal == {"idle", "done", "failed"}

MsgNoDriver == "the python psycopg2 module is required"
MsgConnect == "unable to connect to database"
MsgQuery == "Database query failed"

----------------------------------------------------------------------------
\* The server.

\* Variant: the query never gets the extversion condition.
Select_byname(db, ext, ver) == { r \in db : r.extname = ext }

\* Rows a SELECT on pg_extension returns: by name, and by version too when
\* the query has the extversion condition.
Select(db, ext, ver) ==
    { r \in db : r.extname = ext /\ (Truthy(ver) => r.extversion = ver) }

\* CREATE EXTENSION ext [VERSION ver]: the catalogs it can leave when it
\* succeeds.  It fails when the extension is installed; without a VERSION
\* clause the server installs the control file's default version.
ServerCreate(db, ext, ver) ==
    IF \E r \in db : r.extname = ext THEN {}
    ELSE { db \cup {[extname |-> ext, extversion |-> v]} :
             v \in IF Truthy(ver) THEN {ver} \cap Versions ELSE Versions }

\* ALTER EXTENSION ext UPDATE TO ver: fails when ext is not installed.
ServerAlter(db, ext, ver) ==
    IF ~ \E r \in db : r.extname = ext THEN {}
    ELSE { { r \in db : r.extname # ext } \cup {[extname |-> ext, extversion |-> v]} :
             v \in {ver} \cap Versions }

\* DROP EXTENSION ext: fails when ext is not installed.
ServerDrop(db, ext) ==
    IF ~ \E r \in db : r.extname = ext THEN {}
    ELSE { { r \in db : r.extname # ext } }

----------------------------------------------------------------------------
\* The module's functions.

\* ext_exists: cursor.rowcount == 1 after the SELECT.
ext_exists(db, ext, ver) == Cardinality(Select(db, ext, ver)) = 1

\* Variant: the name is formatted into the statement without getquoted.
prepare_ext_query_unchecked(has_quote_ident, name) == name

\* prepare_ext_query followed by the adaptation of params in cursor.execute:
\* with quote_ident every name is quoted; without it the name goes through
\* QuotedIdentifier.getquoted, which raises for a name off the pattern.
prepare_ext_query(has_quote_ident, name) ==
    IF has_quote_ident THEN name ELSE getquoted(name)

\* Variant: main() without the module.check_mode test.
main_branch_nocheck(check_mode, state) ==
    IF state = "absent" THEN "ext_delete" ELSE "ext_create"

\* The branch main() takes inside its second try block.
main_branch(check_mode, state) ==
    IF check_mode
    THEN IF state = "present" THEN "check_present" ELSE "check_absent"
    ELSE IF state = "absent" THEN "ext_delete" ELSE "ext_create"

\* Variant: the test of ext_exists in ext_delete inverted.
ext_delete_next_inverted(exists) == IF exists THEN "return_false" ELSE "drop"

\* ext_delete after its ext_exists: DROP, or return False.
ext_delete_next(exists) == IF exists THEN "drop" ELSE "return_false"

\* Variant: ext_create without the else branch (an installed extension is
\* never upgraded).
ext_create_next_noupgrade(exists, ver) ==
    IF ~exists THEN "create" ELSE "return_false"

\* Variant: the else branch without "if ver" (the second read is always made).
ext_create_next_recheck(exists, ver) ==
    IF ~exists THEN "create" ELSE "exists_ver"

\* ext_create after ext_exists(cursor, ext): CREATE, the second ext_exists,
\* or return False.
ext_create_next(exists, ver) ==
    IF ~exists THEN "create"
    ELSE IF Truthy(ver) THEN "exists_ver" ELSE "return_false"

\* Variant: ALTER without looking at the second read.
ext_create_ver_next_always(exists_ver) == "alter"

\* Variant: the test of the second read inverted.
ext_create_ver_next_inverted(exists_ver) ==
    IF exists_ver THEN "alter" ELSE "return_false"

\* ext_create after ext_exists(cursor, ext, ver): ALTER, or return False.
ext_create_ver_next(exists_ver) == IF ~exists_ver THEN "alter" ELSE "return_false"

\* Variant: the absent prediction passes the version to ext_exists.
check_changed_ver(db, state, ext, version) ==
    IF state = "present" THEN ~ext_exists(db, ext, version)
    ELSE ext_exists(db, ext, version)

\* The value the check-mode branch assigns to changed.
check_changed(db, state, ext, version) ==
    IF state = "present" THEN ~ext_exists(db, ext, version)
    ELSE ext_exists(db, ext, None)

----------------------------------------------------------------------------
\* Steps of an invocation.

Init ==
    /\ pg_extension \in Catalogs
    /\ pc = [p \in Procs |-> IF p = 1 THEN "idle" ELSE "off"]
    /\ params = [p \in Procs |-> NoParams]
    /\ driver = [p \in Procs |-> NoDriver]
    /\ changed = [p \in Procs |-> FALSE]
    /\ msg = [p \in Procs |-> ""]
    /\ stmts = [p \in Procs |-> <<>>]
    /\ before = [p \in Procs |-> [db |-> pg_extension, repeat |-> FALSE]]
    /\ last = NoRun

\* cursor.execute(query, params) reached the server, which answered ok or
\* with an error.
SentAs(p, kind, ext, ver, ok) ==
    stmts' = [stmts EXCEPT ![p] = Append(@, [kind |-> kind, ext |-> ext,
                                             ver |-> ver, ok |-> ok])]

\* A statement that carries the name as given in module.params.
Sent(p, kind, ver, ok) == SentAs(p, kind, params[p].ext, ver, ok)

\* Variant: the except clause swallows the error and main() goes on to
\* exit_json.
fail_json_swallowed(p, m) ==
    /\ pc' = [pc EXCEPT ![p] = "done"]
    /\ last' = NoRun
    /\ UNCHANGED <<changed, msg>>

\* module.fail_json(msg=...): the process exits with the failure outcome.
fail_json(p, m) ==
    /\ pc' = [pc EXCEPT ![p] = "failed"]
    /\ msg' = [msg EXCEPT ![p] = m]
    /\ last' = NoRun
    /\ UNCHANGED changed

\* Variant: the return value of ext_delete / ext_create is not assigned to
\* changed.
exit_json_unassigned(p, c) ==
    /\ pc' = [pc EXCEPT ![p] = "done"]
    /\ last' = IF params[p].check_mode THEN NoRun ELSE Desired(p)
    /\ UNCHANGED <<changed, msg>>

\* changed = c, then module.exit_json(changed=changed, ...).
exit_json(p, c) ==
    /\ pc' = [pc EXCEPT ![p] = "done"]
    /\ changed' = [changed EXCEPT ![p] = c]
    /\ last' = IF params[p].check_mode THEN NoRun ELSE Desired(p)
    /\ UNCHANGED msg

\* Control moves on inside ext_delete / ext_create.
goto(p, loc) ==
    /\ pc' = [pc EXCEPT ![p] = loc]
    /\ UNCHANGED <<changed, msg, last>>

\* A new process runs main() up to the driver check: AnsibleModule parses the
\* parameters, changed = False, fail_json when psycopg2 is missing.
StartWith(p, e, v, s, c, d) ==
    /\ params' = [params EXCEPT ![p] = [ext |-> e, version |-> v, state |-> s,
                                        check_mode |-> c]]
    /\ driver' = [driver EXCEPT ![p] = d]
    /\ changed' = [changed EXCEPT ![p] = FALSE]
    /\ stmts' = [stmts EXCEPT ![p] = <<>>]
    /\ before' = [before EXCEPT ![p] =
                      [db |-> pg_extension,
                       repeat |-> ~c /\ last = [ext |-> e, version |-> v, state |-> s]]]
    /\ IF d.postgresqldb_found
       THEN /\ pc' = [pc EXCEPT ![p] = "connect"]
            /\ msg' = [msg EXCEPT ![p] = ""]
            /\ UNCHANGED last
       ELSE /\ pc' = [pc EXCEPT ![p] = "failed"]
            /\ msg' = [msg EXCEPT ![p] = MsgNoDriver]
            /\ last' = NoRun
    /\ UNCHANGED pg_extension

\* An invocation with any parameters, after the previous one has ended.
Start(p) ==
    /\ pc[p] \in Terminal
    /\ \E e \in ExtNames, v \in VersionParams, s \in {"absent", "present"},
          c \in BOOLEAN, d \in Drivers :
          StartWith(p, e, v, s, c, d)

\* Variant: the except clause around psycopg2.connect reports the error and
\* main() goes on to its second try block.
Connect_goes_on(p) ==
    /\ pc[p] = "connect"
    /\ \/ goto(p, "main")
       \/ /\ pc' = [pc EXCEPT ![p] = "main"]
          /\ msg' = [msg EXCEPT ![p] = MsgConnect]
          /\ UNCHANGED <<changed, last>>
    /\ UNCHANGED <<pg_extension, params, driver, stmts, before>>

\* psycopg2.connect, autocommit, cursor: the session opens or fail_json.
Connect(p) ==
    /\ pc[p] = "connect"
    /\ \/ goto(p, "main")
       \/ fail_json(p, MsgConnect)
    /\ UNCHANGED <<pg_extension, params, driver, stmts, before>>

\* check mode: one ext_exists, changed is the prediction.
CheckMode(p) ==
    /\ pc[p] = "main"
    /\ main_branch(params[p].check_mode, params[p].state)
          \in {"check_present", "check_absent"}
    /\ LET ver == IF params[p].state = "present" THEN params[p].version ELSE None
       IN  \/ /\ Sent(p, "SELECT", ver, TRUE)
              /\ exit_json(p, check_changed(pg_extension, params[p].state,
                                             params[p].ext, params[p].version))
           \/ /\ Sent(p, "SELECT", ver, FALSE)
              /\ fail_json(p, MsgQuery)
    /\ UNCHANGED <<pg_extension, params, driver, before>>

\* ext_delete: if ext_exists(cursor, ext).
ExtDeleteExists(p) ==
    /\ pc[p] = "main"
    /\ main_branch(params[p].check_mode, params[p].state) = "ext_delete"
    /\ \/ /\ Sent(p, "SELECT", None, TRUE)
          /\ LET loc == ext_delete_next(ext_exists(pg_extension, params[p].ext, None))
             IN  IF loc = "return_false" THEN exit_json(p, FALSE) ELSE goto(p, loc)
       \/ /\ Sent(p, "SELECT", None, FALSE)
          /\ fail_json(p, MsgQuery)
    /\ UNCHANGED <<pg_extension, params, driver, before>>

\* ext_create: if not ext_exists(cursor, ext).
ExtCreateExists(p) ==
    /\ pc[p] = "main"
    /\ main_branch(params[p].check_mode, params[p].state) = "ext_create"
    /\ \/ /\ Sent(p, "SELECT", None, TRUE)
          /\ LET loc == ext_create_next(ext_exists(pg_extension, params[p].ext, None),
                                        params[p].version)
             IN  IF loc = "return_false" THEN exit_json(p, FALSE) ELSE goto(p, loc)
       \/ /\ Sent(p, "SELECT", None, FALSE)
          /\ fail_json(p, MsgQuery)
    /\ UNCHANGED <<pg_extension, params, driver, before>>

\* ext_create: if not ext_exists(cursor, ext, ver).
ExtCreateExistsVer(p) ==
    /\ pc[p] = "exists_ver"
    /\ \/ /\ Sent(p, "SELECT", params[p].version, TRUE)
          /\ LET loc == ext_create_ver_next(ext_exists(pg_extension, params[p].ext,
                                                       params[p].version))
             IN  IF loc = "return_false" THEN exit_json(p, FALSE) ELSE goto(p, loc)
       \/ /\ Sent(p, "SELECT", params[p].version, FALSE)
          /\ fail_json(p, MsgQuery)
    /\ UNCHANGED <<pg_extension, params, driver, before>>

\* A DDL statement: prepare_ext_query, cursor.execute, return True.  The
\* name is adapted before the statement is sent; the server applies the
\* statement or answers with an error and applies nothing.
ExecDDL(p, kind, ver, results) ==
    IF prepare_ext_query(driver[p].HAS_QUOTE_IDENT, params[p].ext) = Raise
    THEN /\ fail_json(p, MsgQuery)
         /\ UNCHANGED <<pg_extension, stmts>>
    ELSE LET ext == prepare_ext_query(driver[p].HAS_QUOTE_IDENT, params[p].ext)
         IN  \/ \E db \in results :
                  /\ pg_extension' = db
                  /\ SentAs(p, kind, ext, ver, TRUE)
                  /\ exit_json(p, TRUE)
             \/ /\ SentAs(p, kind, ext, ver, FALSE)
                /\ fail_json(p, MsgQuery)
                /\ UNCHANGED pg_extension

\* ext_delete: DROP EXTENSION {ext}.
ExtDeleteDrop(p) ==
    /\ pc[p] = "drop"
    /\ ExecDDL(p, "DROP", None, ServerDrop(pg_extension, params[p].ext))
    /\ UNCHANGED <<params, driver, before>>

\* Variant: ext_create always builds the CREATE without the VERSION clause.
ExtCreateCreate_noversion(p) ==
    /\ pc[p] = "create"
    /\ ExecDDL(p, "CREATE", None, ServerCreate(pg_extension, params[p].ext, None))
    /\ UNCHANGED <<params, driver, before>>

\* ext_create: CREATE EXTENSION {ext} [VERSION %(ver)s].
ExtCreateCreate(p) ==
    /\ pc[p] = "create"
    /\ LET ver == IF Truthy(params[p].version) THEN params[p].version ELSE None
       IN  ExecDDL(p, "CREATE", ver, ServerCreate(pg_extension, params[p].ext, ver))
    /\ UNCHANGED <<params, driver, before>>

\* ext_create: ALTER EXTENSION {ext} UPDATE TO %(ver)s.
ExtCreateAlter(p) ==
    /\ pc[p] = "alter"
    /\ ExecDDL(p, "ALTER", params[p].version,
               ServerAlter(pg_extension, params[p].ext, params[p].version))
    /\ UNCHANGED <<params, driver, before>>

Next ==
    \E p \in Procs :
        \/ Start(p)
        \/ Connect(p)
        \/ CheckMode(p)
        \/ ExtDeleteExists(p)
        \/ ExtDeleteDrop(p)
        \/ ExtCreateExists(p)
        \/ ExtCreateCreate(p)
        \/ ExtCreateExistsVer(p)
        \/ ExtCreateAlter(p)

\* Bound: the identifier validator is run on every name of up to MaxNameLen
\* characters.
MaxNameLen == 3

\* Characters a name is made of: word characters, the dollar sign, and the
\* semicolon, quote, blank and newline.
Chars == Letters \cup Digits \cup {"_", "$", ";", "'", " ", "\n"}

IdentNames == UNION { [1..n -> Chars] : n \in 0..MaxNameLen }

\* psycopg2 older than 2.7: QuotedIdentifier is defined and registered.
ShimDriver == [postgresqldb_found |-> TRUE, HAS_QUOTE_IDENT |-> FALSE]

\* One invocation on an empty catalog, without quote_ident, that asks for an
\* extension of any name to be present.
InitIdent == Init /\ pg_extension = {}

StartIdent(p) ==
    /\ pc[p] = "idle"
    /\ \E e \in IdentNames : StartWith(p, e, "", "present", FALSE, ShimDriver)

NextIdent ==
    \E p \in Procs :
        \/ StartIdent(p)
        \/ Connect(p)
        \/ ExtCreateExists(p)
        \/ ExtCreateCreate(p)

\* The validator on every name: the name reaches QuotedIdentifier.getquoted
\* through the CREATE of ext_create.
SpecIdent == InitIdent /\ [][NextIdent]_vars

\* Two processes, each running main() once.
InitConcurrent ==
    /\ pg_extension \in Catalogs
    /\ pc = [p \in Procs |-> "idle"]
    /\ params = [p \in Procs |-> NoParams]
    /\ driver = [p \in Procs |-> NoDriver]
    /\ changed = [p \in Procs |-> FALSE]
    /\ msg = [p \in Procs |-> ""]
    /\ stmts = [p \in Procs |-> <<>>]
    /\ before = [p \in Procs |-> [db |-> pg_extension, repeat |-> FALSE]]
    /\ last = NoRun

\* A non-check invocation with state=present, for an extension that is not
\* installed when the first of the two starts; the second one names the same
\* extension and may start at any time.
StartConcurrent(p) ==
    /\ pc[p] = "idle"
    /\ \E e \in ExtNames, v \in VersionParams, d \in Drivers :
          /\ (\A q \in Procs : pc[q] = "idle") => ~ \E r \in pg_extension : r.extname = e
          /\ \A q \in Procs \ {p} : pc[q] # "idle" => params[q].ext = e
          /\ StartWith(p, e, v, "present", FALSE, d)

NextConcurrent ==
    \E p \in Procs :
        \/ StartConcurrent(p)
        \/ Connect(p)
        \/ ExtCreateExists(p)
        \/ ExtCreateCreate(p)
        \/ ExtCreateExistsVer(p)
        \/ ExtCreateAlter(p)

\* The statements of the two processes interleave in any order.
SpecConcurrent == InitConcurrent /\ [][NextConcurrent]_vars

\* Invocations run one after another: only process 1 is started.
Spec == Init /\ [][Next]_vars

TypeOK ==
    /\ pg_extension \in Catalogs
    /\ \A p \in Procs : pc[p] \in Terminal \cup {"off", "connect", "main", "drop",
                                                   "create", "exists_ver", "alter"}
    /\ \A p \in Procs : Len(stmts[p]) <= 3

----------------------------------------------------------------------------
\* Vocabulary of the properties.

IsDDL(s) == s.kind # "SELECT"
IsRead(s) == s.kind = "SELECT"

\* The DDL statements and the reads an invocation has sent so far.
DDL(p) == SelectSeq(stmts[p], IsDDL)
Reads(p) == SelectSeq(stmts[p], IsRead)

Stmt(p, kind, ver) == [kind |-> kind, ext |-> params[p].ext, ver |-> ver, ok |-> TRUE]

Installed(db, ext) == \E r \in db : r.extname = ext
InstalledAt(db, ext, v) == [extname |-> ext, extversion |-> v] \in db

\* The catalog matches a desired state.
Matches(db, d) ==
    IF d.state = "absent" THEN ~Installed(db, d.ext)
    ELSE IF d.version = "" THEN Installed(db, d.ext)
    ELSE InstalledAt(db, d.ext, d.version)

NonCheckDone(p) == pc[p] = "done" /\ ~params[p].check_mode

\* The process runs without quote_ident and its name is off the pattern.
ShimInvalid(p) ==
    /\ pc[p] \notin {"idle", "off"}
    /\ driver[p].postgresqldb_found /\ ~driver[p].HAS_QUOTE_IDENT
    /\ ~re_match(params[p].ext)

----------------------------------------------------------------------------
\* C1. Check-mode fidelity: the changed flag a non-check run returns equals
\* the value the check-mode branch computes on the catalog the run started
\* from, for every desired state and every catalog.
C1_CheckModeFidelity ==
    \A p \in Procs :
        NonCheckDone(p) =>
            changed[p] = check_changed(before[p].db, params[p].state,
                                       params[p].ext, params[p].version)

\* A non-check run upgraded an extension installed at another version.
C1_Witness ==
    \E p \in Procs :
        /\ NonCheckDone(p) /\ changed[p]
        /\ params[p].state = "present" /\ params[p].version \in Versions
        /\ Installed(before[p].db, params[p].ext)
        /\ ~InstalledAt(before[p].db, params[p].ext, params[p].version)

\* C2. Idempotence: a non-check run reports changed exactly when the catalog
\* did not match the desired state, and a run that repeats the desired state
\* of the non-check run finished just before it reports changed=false and
\* sends no DDL.
C2_Idempotence ==
    \A p \in Procs :
        NonCheckDone(p) =>
            /\ changed[p] <=> ~Matches(before[p].db, Desired(p))
            /\ before[p].repeat => ~changed[p] /\ DDL(p) = <<>>

\* A second run with the same desired version has finished.
C2_Witness ==
    \E p \in Procs :
        /\ NonCheckDone(p) /\ before[p].repeat
        /\ params[p].state = "present" /\ params[p].version \in Versions

\* C3 as stated: every finished invocation made exactly one read and at most
\* one DDL write, two round trips at most.
C3_OneReadOneWrite ==
    \A p \in Procs :
        pc[p] = "done" =>
            /\ Len(Reads(p)) = 1
            /\ Len(DDL(p)) <= 1
            /\ Len(stmts[p]) <= 2

\* C3 amended: every finished invocation made one read, or two when a
\* non-check run asks for a version of an extension that is installed (the
\* read by name, then the read by name and version); at most one DDL write;
\* no invocation sends more than three statements.
C3_TwoReadsOneWrite ==
    \A p \in Procs :
        /\ Len(stmts[p]) <= 3 /\ Len(DDL(p)) <= 1 /\ Len(Reads(p)) <= 2
        /\ pc[p] = "done" =>
              /\ Len(Reads(p)) \in {1, 2}
              /\ Len(Reads(p)) = 2 <=>
                    /\ ~params[p].check_mode
                    /\ params[p].state = "present"
                    /\ params[p].version # ""
                    /\ Installed(before[p].db, params[p].ext)

\* An upgrade: two reads and the ALTER.
C3_Witness ==
    \E p \in Procs :
        /\ pc[p] = "done" /\ Len(stmts[p]) = 3
        /\ Len(Reads(p)) = 2 /\ Len(DDL(p)) = 1

\* C4. In check mode no DDL statement is sent and the catalog stays what it
\* was when the invocation began; the run reports the predicted changed.
C4_CheckModeNoDDL ==
    \A p \in Procs :
        params[p].check_mode =>
            /\ DDL(p) = <<>>
            /\ pg_extension = before[p].db
            /\ pc[p] = "done" =>
                  changed[p] = check_changed(before[p].db, params[p].state,
                                             params[p].ext, params[p].version)

\* A check-mode run predicted a change.
C4_Witness ==
    \E p \in Procs :
        params[p].check_mode /\ pc[p] = "done" /\ changed[p]

\* C5. present with version V, non-check: CREATE ... VERSION V when nothing is
\* installed, ALTER ... UPDATE TO V when another version is installed, nothing
\* when V is installed; changed tells which.  No other DDL is ever sent, and
\* the call repeated after the upgrade returns changed=false.
C5_PresentWithVersion ==
    \A p \in Procs :
        (~params[p].check_mode /\ params[p].state = "present"
            /\ params[p].version \in Versions) =>
        LET V == params[p].version
            expected == IF ~Installed(before[p].db, params[p].ext)
                        THEN <<Stmt(p, "CREATE", V)>>
                        ELSE IF ~InstalledAt(before[p].db, params[p].ext, V)
                        THEN <<Stmt(p, "ALTER", V)>>
                        ELSE <<>>
        IN  /\ \A i \in 1..Len(DDL(p)) :
                  i <= Len(expected) /\ [DDL(p)[i] EXCEPT !.ok = TRUE] = expected[i]
            /\ pc[p] = "done" =>
                  /\ DDL(p) = expected
                  /\ changed[p] <=> expected # <<>>
                  /\ before[p].repeat => ~changed[p]

\* The call was repeated with the same V and found V installed.
C5_Witness ==
    \E p \in Procs :
        /\ NonCheckDone(p) /\ before[p].repeat /\ ~changed[p]
        /\ params[p].state = "present" /\ params[p].version \in Versions
        /\ InstalledAt(pg_extension, params[p].ext, params[p].version)

\* C6. present without version, non-check: CREATE without a VERSION clause
\* when nothing is installed; when something is installed no DDL is sent, the
\* catalog is left as it was and changed=false.
C6_PresentNoVersion ==
    \A p \in Procs :
        (~params[p].check_mode /\ params[p].state = "present"
            /\ params[p].version = "" /\ pc[p] \notin {"idle", "off"}) =>
        LET expected == IF ~Installed(before[p].db, params[p].ext)
                        THEN <<Stmt(p, "CREATE", None)>>
                        ELSE <<>>
        IN  /\ \A i \in 1..Len(DDL(p)) :
                  i <= Len(expected) /\ [DDL(p)[i] EXCEPT !.ok = TRUE] = expected[i]
            /\ Installed(before[p].db, params[p].ext) => pg_extension = before[p].db
            /\ pc[p] = "done" =>
                  /\ DDL(p) = expected
                  /\ changed[p] <=> expected # <<>>

\* An installed extension was left alone.
C6_Witness ==
    \E p \in Procs :
        /\ NonCheckDone(p) /\ ~changed[p]
        /\ params[p].state = "present" /\ params[p].version = ""
        /\ Installed(before[p].db, params[p].ext)

\* C7. absent: a non-check run sends one DROP and returns changed=true when
\* the extension is installed, and sends nothing and returns changed=false
\* when it is not; check mode predicts the same; whatever the version option.
C7_Absent ==
    \A p \in Procs :
        (params[p].state = "absent" /\ pc[p] = "done") =>
        LET was == Installed(before[p].db, params[p].ext)
        IN  /\ changed[p] <=> was
            /\ DDL(p) = IF was /\ ~params[p].check_mode
                        THEN <<Stmt(p, "DROP", None)>> ELSE <<>>

\* An extension was dropped although another version was named.
C7_Witness ==
    \E p \in Procs :
        /\ NonCheckDone(p) /\ changed[p] /\ params[p].state = "absent"
        /\ params[p].version \in Versions
        /\ Installed(before[p].db, params[p].ext)
        /\ ~InstalledAt(before[p].db, params[p].ext, params[p].version)

\* C8. Convergence: when a non-check run ends in exit_json the catalog
\* matches the desired state, and the run sent at most one DDL statement.
C8_Convergence ==
    \A p \in Procs :
        NonCheckDone(p) =>
            /\ Matches(pg_extension, Desired(p))
            /\ Len(DDL(p)) <= 1

\* A run changed the catalog to reach a desired version.
C8_Witness ==
    \E p \in Procs :
        /\ NonCheckDone(p) /\ Len(DDL(p)) = 1
        /\ params[p].state = "present" /\ params[p].version \in Versions
        /\ ~Matches(before[p].db, Desired(p))

\* C9 as stated: without quote_ident, no invocation whose name is off the
\* pattern ends in exit_json, whatever the desired state, the catalog and
\* the mode.
C9_InvalidNameAlwaysAborts ==
    \A p \in Procs : ShimInvalid(p) => pc[p] # "done"

\* C9 amended: without quote_ident, a name off the pattern is rejected when a
\* DDL statement is about to be executed with it, and only then.  No DDL
\* statement is ever sent for such a name and the catalog is left as it was;
\* a non-check run whose reads succeed fails exactly when it needs a CREATE,
\* ALTER or DROP; check-mode runs and non-check runs that need no DDL are
\* not validated and end in exit_json, a non-check one with changed=false.
C9_InvalidNameAbortsDDL ==
    \A p \in Procs :
        ShimInvalid(p) =>
            /\ DDL(p) = <<>>
            /\ pg_extension = before[p].db
            /\ NonCheckDone(p) => ~changed[p]
            /\ (/\ pc[p] \in {"done", "failed"}
                /\ ~params[p].check_mode
                /\ msg[p] # MsgConnect
                /\ \A i \in 1..Len(stmts[p]) : stmts[p][i].ok) =>
                   (pc[p] = "failed" <=>
                       check_changed(before[p].db, params[p].state,
                                     params[p].ext, params[p].version))

\* A DROP of an installed extension with a name off the pattern was refused
\* after the read found it.
C9_Witness ==
    \E p \in Procs :
        /\ ShimInvalid(p) /\ pc[p] = "failed" /\ msg[p] = MsgQuery
        /\ params[p].state = "absent"
        /\ Len(stmts[p]) = 1 /\ stmts[p][1].ok

\* C10. A statement that fails is the last statement of its invocation, the
\* invocation ends in fail_json with the query-failed message and never in
\* exit_json, no statement is sent twice after a failure, and the catalog is
\* what it was when the invocation began; at most one DDL is ever applied.
C10_FailureIsFatal ==
    \A p \in Procs :
        /\ \A i \in 1..Len(stmts[p]) :
              ~stmts[p][i].ok =>
                  /\ i = Len(stmts[p])
                  /\ pc[p] = "failed" /\ msg[p] = MsgQuery
                  /\ pg_extension = before[p].db
        /\ Cardinality({ i \in 1..Len(stmts[p]) :
                           IsDDL(stmts[p][i]) /\ stmts[p][i].ok }) <= 1
        /\ pc[p] = "failed" => ~changed[p]

\* An ALTER failed after two successful reads.
C10_Witness ==
    \E p \in Procs :
        /\ pc[p] = "failed" /\ Len(stmts[p]) = 3
        /\ stmts[p][3].kind = "ALTER" /\ ~stmts[p][3].ok

\* The session is open: psycopg2.connect and db_connection.cursor returned.
SessionOpen(p) == pc[p] \in {"main", "drop", "create", "exists_ver", "alter", "done"}

\* C11. When psycopg2 is missing or the session cannot be established the
\* invocation ends in fail_json without having sent a read or a DDL
\* statement; a statement has only ever been sent by an invocation that got
\* its session, and a step sends a statement only with the session open.
C11_NoSessionNoStatement ==
    /\ [](\A p \in Procs :
            /\ pc[p] = "connect" => stmts[p] = <<>>
            /\ msg[p] \in {MsgNoDriver, MsgConnect} =>
                  pc[p] = "failed" /\ stmts[p] = <<>>
            /\ stmts[p] # <<>> =>
                  driver[p].postgresqldb_found /\ msg[p] \in {"", MsgQuery})
    /\ [][\A p \in Procs :
            Len(stmts'[p]) > Len(stmts[p]) => SessionOpen(p)]_vars

\* The connection was refused.
C11_Witness ==
    \E p \in Procs :
        pc[p] = "failed" /\ msg[p] = MsgConnect /\ stmts[p] = <<>>

\* C12. ext_exists is true exactly when the catalog has one row of that
\* name (ver None or empty) or one row of that name and version (otherwise);
\* the catalog never has more than one row to match.  Its read is one SELECT
\* and leaves the catalog as it is.
C12_ExtExists ==
    /\ [](\A ext \in ExtNames :
            /\ \A ver \in {None, ""} :
                  /\ Cardinality(Select(pg_extension, ext, ver)) <= 1
                  /\ ext_exists(pg_extension, ext, ver) <=> Installed(pg_extension, ext)
            /\ \A ver \in Versions :
                  /\ Cardinality(Select(pg_extension, ext, ver)) <= 1
                  /\ ext_exists(pg_extension, ext, ver)
                        <=> InstalledAt(pg_extension, ext, ver))
    /\ [][\A p \in Procs :
            Len(Reads(p)') > Len(Reads(p)) =>
                /\ pg_extension' = pg_extension
                /\ Len(stmts'[p]) = Len(stmts[p]) + 1
                /\ Len(Reads(p)') = Len(Reads(p)) + 1]_vars

\* The read by name and version found another version installed.
C12_Witness ==
    \E p \in Procs :
        /\ pc[p] = "alter" /\ Len(Reads(p)) = 2
        /\ Installed(pg_extension, params[p].ext)
        /\ ~ext_exists(pg_extension, params[p].ext, params[p].version)

\* A name as the validator is said to accept it: a letter or underscore, then
\* only word characters, underscores and dollar signs.
SafeName(n) ==
    /\ Len(n) >= 1
    /\ n[1] \in Letters \cup {"_"}
    /\ \A i \in 2..Len(n) : n[i] \in Letters \cup Digits \cup {"_", "$"}

HasUnsafeChar(n) == \E i \in 1..Len(n) : n[i] \in {";", "'", " ", "\n"}

\* C13. Without quote_ident, a DDL statement is sent only for a name that
\* starts with a letter or underscore and goes on with word characters,
\* underscores and dollar signs, never for a name with a semicolon, quote,
\* blank or newline in it, and the statement carries the name unmodified;
\* for every other name getquoted raises.
C13_ValidatorAcceptsOnlySafeNames ==
    \A p \in Procs :
        (driver[p].postgresqldb_found /\ ~driver[p].HAS_QUOTE_IDENT) =>
            /\ \A i \in 1..Len(DDL(p)) :
                  /\ SafeName(params[p].ext)
                  /\ ~HasUnsafeChar(params[p].ext)
                  /\ DDL(p)[i].ext = params[p].ext
            /\ (pc[p] = "done" /\ changed[p]) => SafeName(params[p].ext)

\* What the server requires of the catalog for a DDL statement on ext.
Precondition(kind, db, ext) ==
    IF kind = "CREATE" THEN ~Installed(db, ext) ELSE Installed(db, ext)

\* C14. Invocations run one after another: the catalog never holds two rows
\* of one name, an invocation that is about to send a CREATE finds no row of
\* its extension and one that is about to send a DROP or ALTER finds one, and
\* every DDL statement is sent in such a catalog.
C14_OneRecordAndPreconditions ==
    /\ [](/\ \A r1, r2 \in pg_extension : r1.extname = r2.extname => r1 = r2
          /\ \A p \in Procs :
                /\ pc[p] = "create" => Precondition("CREATE", pg_extension, params[p].ext)
                /\ pc[p] = "drop" => Precondition("DROP", pg_extension, params[p].ext)
                /\ pc[p] = "alter" => Precondition("ALTER", pg_extension, params[p].ext))
    /\ [][\A p \in Procs :
            Len(DDL(p)') > Len(DDL(p)) =>
                Precondition(DDL(p)'[Len(DDL(p)')].kind, pg_extension, params[p].ext)]_vars

\* An extension was created next to another installed one.
C14_Witness ==
    \E p \in Procs :
        /\ pc[p] = "done" /\ Len(DDL(p)) = 1 /\ DDL(p)[1].kind = "CREATE"
        /\ Installed(pg_extension, params[p].ext)
        /\ Cardinality(pg_extension) = 2

\* C15. A non-check run that ends in exit_json reports changed=true exactly
\* when it executed one DDL statement, which the server applied, and
\* changed=false exactly when it executed none.
C15_ChangedIffOneDDL ==
    \A p \in Procs :
        NonCheckDone(p) =>
            /\ changed[p] <=> (Len(DDL(p)) = 1 /\ DDL(p)[1].ok)
            /\ ~changed[p] <=> DDL(p) = <<>>

\* A DROP was executed and reported.
C15_Witness ==
    \E p \in Procs :
        /\ NonCheckDone(p) /\ changed[p]
        /\ Len(DDL(p)) = 1 /\ DDL(p)[1].kind = "DROP"
        /\ ~Installed(pg_extension, params[p].ext)

\* The step sends a CREATE for process p.
SendsCreate(p) ==
    /\ Len(stmts'[p]) = Len(stmts[p]) + 1
    /\ stmts'[p][Len(stmts'[p])].kind = "CREATE"

HasDDL(p, kind) == \E i \in 1..Len(DDL(p)) : DDL(p)[i].kind = kind /\ DDL(p)[i].ok

\* C16 as stated: of two concurrent present-invocations for an extension
\* that was absent, none sends its CREATE when the extension is installed.
C16_NoCreateOnInstalled ==
    [][\A p \in Procs : SendsCreate(p) => ~Installed(pg_extension, params[p].ext)]_vars

\* C16 amended: at most one CREATE is applied and the catalog never holds two
\* rows of the name; a CREATE sent when the extension is installed (both
\* existence checks ran before the first CREATE) is refused by the server,
\* changes nothing and ends its invocation in fail_json; when both
\* invocations end in exit_json exactly one of them executed the CREATE and
\* the other reports changed=true only if it executed an ALTER.
C16_OneCreateApplied ==
    /\ [](/\ \A r1, r2 \in pg_extension : r1.extname = r2.extname => r1 = r2
          /\ \A p, q \in Procs :
                p # q =>
                    /\ ~(HasDDL(p, "CREATE") /\ HasDDL(q, "CREATE"))
                    /\ pc[p] = "done" => \A i \in 1..Len(stmts[p]) : stmts[p][i].ok
                    /\ (pc[p] = "done" /\ pc[q] = "done") =>
                          /\ HasDDL(p, "CREATE") \/ HasDDL(q, "CREATE")
                          /\ ~HasDDL(p, "CREATE") =>
                                (changed[p] <=> HasDDL(p, "ALTER")))
    /\ [][\A p \in Procs :
            (SendsCreate(p) /\ Installed(pg_extension, params[p].ext)) =>
                /\ ~stmts'[p][Len(stmts'[p])].ok
                /\ pg_extension' = pg_extension
                /\ pc'[p] = "failed" /\ msg'[p] = MsgQuery]_vars

\* Both existence checks found nothing; the first CREATE was applied and its
\* invocation ended, then the second CREATE was refused.
C16_Witness ==
    \E p, q \in Procs :
        /\ p # q
        /\ pc[p] = "done" /\ HasDDL(p, "CREATE")
        /\ pc[q] = "failed" /\ Len(stmts[q]) = 2
        /\ stmts[q][1].ok /\ stmts[q][2].kind = "CREATE" /\ ~stmts[q][2].ok
        /\ last = NoRun
====
